---- MODULE Spec2Model ----
(***************************************************************************)
(* The Interval value type of intervaltree/interval.py: a half-open        *)
(* [begin, end) record with an optional data payload, its overlap, size    *)
(* and distance operations, its two equalities, its hash, its three-way    *)
(* comparator and its four null-rejecting directional predicates.          *)
(*                                                                         *)
(* Every method is a pure function of self and its argument.  The state    *)
(* is one method call: the receiver, the argument, the method called and   *)
(* what the call returned or raised.                                       *)
(***************************************************************************)
EXTENDS Integers, Sequences, FiniteSets

VARIABLES
    self,   \* the receiver, an Interval
    arg,    \* the argument: a point, a (begin, end) range or an Interval
    op,     \* the method last called on self ("new": none yet)
    ret     \* its outcome: [exc |-> "none", val |-> v] or [exc |-> error]

vars == <<self, arg, op, ret>>

\* begin and end are drawn from 0 .. MaxPoint
MaxPoint == 3

Points == 0 .. MaxPoint

(***************************************************************************)
(* Payload values.  type is type(data).__name__; num is the value of a     *)
(* number (and the identity of a dict's contents or of a function); chars *)
(* are the code points of a str.                                           *)
(***************************************************************************)
PyNone  == [type |-> "NoneType", num |-> 0, chars |-> <<>>]
PyTrue  == [type |-> "bool",     num |-> 1, chars |-> <<>>]
PyInt0  == [type |-> "int",      num |-> 0, chars |-> <<>>]
PyFlt0  == [type |-> "float",    num |-> 0, chars |-> <<>>]
PyFlt1  == [type |-> "float",    num |-> 1, chars |-> <<>>]
PyStrA  == [type |-> "str",      num |-> 0, chars |-> <<97>>]
PyStrB  == [type |-> "str",      num |-> 0, chars |-> <<98>>]
PyDict0 == [type |-> "dict",     num |-> 0, chars |-> <<>>]
PyDict1 == [type |-> "dict",     num |-> 1, chars |-> <<>>]
PyFunc  == [type |-> "function", num |-> 0, chars |-> <<>>]

Payloads ==
    {PyNone, PyTrue, PyInt0, PyFlt0, PyFlt1, PyStrA, PyStrB, PyDict0, PyDict1,
     PyFunc}

\* Interval.__new__: no validation, data defaults to None
Interval(begin, end, data) ==
    [kind |-> "interval", begin |-> begin, end |-> end, data |-> data]

Intervals == {Interval(b, e, d) : b \in Points, e \in Points, d \in Payloads}

\* the argument forms of overlaps(begin, end=None)
Point(p) == [kind |-> "point", p |-> p]
Range(begin, end) == [kind |-> "range", begin |-> begin, end |-> end]

Queries ==
    {Point(p) : p \in Points}
        \cup {Range(b, e) : b \in Points, e \in Points}
        \cup Intervals

\* a call's outcome
Ok(v) == [exc |-> "none", val |-> v]
Raise(e) == [exc |-> e]

(***************************************************************************)
(* Python's comparison of sequences (tuples, and strs by code point):      *)
(* the first differing item decides, a proper prefix is smaller.           *)
(***************************************************************************)
SeqLt(a, b) ==
    \E i \in 1 .. Len(b) :
        /\ \A j \in 1 .. (i - 1) : j <= Len(a) /\ a[j] = b[j]
        /\ (i > Len(a) \/ a[i] < b[i])

\* type(data).__name__ as code points
TypeName(d) ==
    CASE d.type = "NoneType" -> <<78, 111, 110, 101, 84, 121, 112, 101>>
      [] d.type = "bool"     -> <<98, 111, 111, 108>>
      [] d.type = "dict"     -> <<100, 105, 99, 116>>
      [] d.type = "float"    -> <<102, 108, 111, 97, 116>>
      [] d.type = "function" -> <<102, 117, 110, 99, 116, 105, 111, 110>>
      [] d.type = "int"      -> <<105, 110, 116>>
      [] d.type = "str"      -> <<115, 116, 114>>

IsNumber(d) == d.type \in {"bool", "int", "float"}

\* self.data == other.data: numbers compare by value across bool, int and
\* float; other types are equal only to equal values of their own type
DataEq(x, y) ==
    IF IsNumber(x) /\ IsNumber(y) THEN x.num = y.num
    ELSE x.type = y.type /\ x.num = y.num /\ x.chars = y.chars

\* self.data < other.data raises TypeError unless both are numbers or
\* both are strs (None, dict and function define no ordering)
DataLtRaises(x, y) ==
    ~ \/ (IsNumber(x) /\ IsNumber(y))
      \/ (x.type = "str" /\ y.type = "str")

DataLt(x, y) ==
    IF IsNumber(x) THEN x.num < y.num ELSE SeqLt(x.chars, y.chars)

\* contains_point (line 99)
contains_point(s, p) == s.begin <= p /\ p < s.end

\* a bug overlaps could have: the closed test, begin <= self.end
overlaps_range_closed(s, begin, end) == begin <= s.end /\ end > s.begin

\* overlaps with end given (line 65)
overlaps_range(s, begin, end) == begin < s.end /\ end > s.begin

\* overlaps: the range form when end is given; else the argument read as an
\* Interval (begin.begin, begin.end); else, that failing, as a point
overlaps(s, q) ==
    IF q.kind = "range" THEN overlaps_range(s, q.begin, q.end)
    ELSE IF q.kind = "interval" THEN overlaps_range(s, q.begin, q.end)
    ELSE contains_point(s, q.p)

Max(a, b) == IF a >= b THEN a ELSE b
Min(a, b) == IF a <= b THEN a ELSE b

\* a bug overlap_size could have: self.end taken for min(self.end, end)
overlap_size_no_min(s, q) ==
    IF ~overlaps(s, q) THEN Ok(0)
    ELSE IF q.kind = "point" THEN Raise("AttributeError")
    ELSE Ok(s.end - Max(s.begin, q.begin))

\* overlap_size: 0 when there is no overlap; with end None the begin and end
\* attributes of the argument are read, which a point does not have
overlap_size(s, q) ==
    IF ~overlaps(s, q) THEN Ok(0)
    ELSE IF q.kind = "range"
        THEN Ok(Min(s.end, q.end) - Max(s.begin, q.begin))
    ELSE IF q.kind = "interval"
        THEN Ok(Min(s.end, q.end) - Max(s.begin, q.begin))
    ELSE Raise("AttributeError")

range_matches(s, o) == s.begin = o.begin /\ s.end = o.end

contains_interval(s, o) == s.begin <= o.begin /\ s.end >= o.end

\* a bug distance_to could have: the else branch (self after other) missing
distance_to_no_else(s, o) ==
    IF overlaps(s, o) THEN 0
    ELSE IF o.kind = "interval" THEN o.begin - s.end
    ELSE IF s.end <= o.p THEN o.p - s.end ELSE s.begin - o.p

\* a bug distance_to could have: self.end taken for self.begin
distance_to_wrong_end(s, o) ==
    IF overlaps(s, o) THEN 0
    ELSE IF o.kind = "interval"
        THEN IF s.begin < o.begin THEN o.begin - s.end ELSE s.end - o.end
    ELSE IF s.end <= o.p THEN o.p - s.end ELSE s.begin - o.p

\* distance_to: the try block serves an Interval, the except block a point
distance_to(s, o) ==
    IF overlaps(s, o) THEN 0
    ELSE IF o.kind = "interval"
        THEN IF s.begin < o.begin THEN o.begin - s.end ELSE s.begin - o.end
    ELSE IF s.end <= o.p THEN o.p - s.end ELSE s.begin - o.p

is_null(s) == s.begin >= s.end

length(s) == IF is_null(s) THEN 0 ELSE s.end - s.begin

(***************************************************************************)
(* hash((begin, end)): the tuple hash folds its items' hashes, and nothing *)
(* else, into an accumulator (add the item times a prime, rotate, multiply *)
(* by a prime), here on 16-bit words.  A small int hashes to itself.       *)
(***************************************************************************)
HashMix(acc, lane) ==
    LET a == (acc + lane * 40503) % 65536
        r == ((a * 32) % 65536) + (a \div 2048)
    IN  (r * 31153) % 65536

\* a bug __hash__ could have: the whole tuple hashed, data included
hash_with_data(s) ==
    (HashMix(HashMix(HashMix(374, s.begin), s.end),
             s.data.num + Len(TypeName(s.data)) + Len(s.data.chars)) + 3) % 65536

__hash__(s) == (HashMix(HashMix(374, s.begin), s.end) + 2) % 65536

__eq__(s, o) ==
    s.begin = o.begin /\ s.end = o.end /\ DataEq(s.data, o.data)

\* a bug __cmp__ could have: the data fields ordered without the equality
\* test first
cmp_no_eq(s, other) ==
    LET st == <<s.begin, s.end>>
        ot == IF other.kind = "interval" THEN <<other.begin, other.end>>
              ELSE <<other.p>>
    IN  IF st # ot THEN (IF SeqLt(st, ot) THEN -1 ELSE 1)
        ELSE IF ~DataLtRaises(s.data, other.data)
            THEN (IF DataLt(s.data, other.data) THEN -1 ELSE 1)
        ELSE IF TypeName(s.data) = TypeName(other.data) THEN 0
        ELSE IF SeqLt(TypeName(s.data), TypeName(other.data)) THEN -1 ELSE 1

\* __cmp__: (begin, end) tuples first; an argument that cannot be sliced is
\* the 1-tuple (other,); then the data fields, by type name when comparing
\* them raises TypeError
__cmp__(s, other) ==
    LET st == <<s.begin, s.end>>
        ot == IF other.kind = "interval" THEN <<other.begin, other.end>>
              ELSE <<other.p>>
    IN  IF st # ot THEN (IF SeqLt(st, ot) THEN -1 ELSE 1)
        ELSE IF DataEq(s.data, other.data) THEN 0
        ELSE IF ~DataLtRaises(s.data, other.data)
            THEN (IF DataLt(s.data, other.data) THEN -1 ELSE 1)
        ELSE IF TypeName(s.data) = TypeName(other.data) THEN 0
        ELSE IF SeqLt(TypeName(s.data), TypeName(other.data)) THEN -1 ELSE 1

__lt__(s, other) == __cmp__(s, other) < 0

__gt__(s, other) == __cmp__(s, other) > 0

\* _raise_if_null: TRUE when it raises ValueError; only an argument with an
\* is_null attribute (an Interval) is asked
_raise_if_null(s, other) ==
    \/ is_null(s)
    \/ (other.kind = "interval" /\ is_null(other))

\* a bug lt could have: the strict test, so that touching is not "before"
lt_strict(s, other) ==
    IF _raise_if_null(s, other) THEN Raise("ValueError")
    ELSE Ok(s.end < (IF other.kind = "interval" THEN other.begin ELSE other.p))

lt(s, other) ==
    IF _raise_if_null(s, other) THEN Raise("ValueError")
    ELSE Ok(s.end <= (IF other.kind = "interval" THEN other.begin ELSE other.p))

le(s, other) ==
    IF _raise_if_null(s, other) THEN Raise("ValueError")
    ELSE Ok(s.end <= (IF other.kind = "interval" THEN other.end ELSE other.p))

gt(s, other) ==
    IF _raise_if_null(s, other) THEN Raise("ValueError")
    ELSE IF other.kind = "interval" THEN Ok(s.begin >= other.end)
    ELSE Ok(s.begin > other.p)

ge(s, other) ==
    IF _raise_if_null(s, other) THEN Raise("ValueError")
    ELSE Ok(s.begin >= (IF other.kind = "interval" THEN other.begin ELSE other.p))

(***************************************************************************)
(* The calls.  Each applies one method to self and arg and records the     *)
(* outcome.  A method of one Interval argument is called with an Interval, *)
(* one documented for "Interval or point" with either.                     *)
(***************************************************************************)
Init ==
    /\ self \in Intervals
    /\ arg \in Queries
    /\ op = "new"
    /\ ret = Ok(0)

Call(name, result) ==
    /\ op' = name
    /\ ret' = result
    /\ UNCHANGED <<self, arg>>

IsInterval(q) == q.kind = "interval"
IsPoint(q) == q.kind = "point"

Overlaps == Call("overlaps", Ok(overlaps(self, arg)))

OverlapSize == Call("overlap_size", overlap_size(self, arg))

ContainsPoint == IsPoint(arg) /\ Call("contains_point", Ok(contains_point(self, arg.p)))

RangeMatches == IsInterval(arg) /\ Call("range_matches", Ok(range_matches(self, arg)))

ContainsInterval ==
    IsInterval(arg) /\ Call("contains_interval", Ok(contains_interval(self, arg)))

DistanceTo == ~(arg.kind = "range") /\ Call("distance_to", Ok(distance_to(self, arg)))

IsNull == Call("is_null", Ok(is_null(self)))

Length == Call("length", Ok(length(self)))

Hash == Call("__hash__", Ok(__hash__(self)))

Eq == IsInterval(arg) /\ Call("__eq__", Ok(__eq__(self, arg)))

Cmp == ~(arg.kind = "range") /\ Call("__cmp__", Ok(__cmp__(self, arg)))

PyLt == ~(arg.kind = "range") /\ Call("__lt__", Ok(__lt__(self, arg)))

PyGt == ~(arg.kind = "range") /\ Call("__gt__", Ok(__gt__(self, arg)))

Lt == ~(arg.kind = "range") /\ Call("lt", lt(self, arg))

Le == ~(arg.kind = "range") /\ Call("le", le(self, arg))

Gt == ~(arg.kind = "range") /\ Call("gt", gt(self, arg))

Ge == ~(arg.kind = "range") /\ Call("ge", ge(self, arg))

Next ==
    \/ Overlaps
    \/ OverlapSize
    \/ ContainsPoint
    \/ RangeMatches
    \/ ContainsInterval
    \/ DistanceTo
    \/ IsNull
    \/ Length
    \/ Hash
    \/ Eq
    \/ Cmp
    \/ PyLt
    \/ PyGt
    \/ Lt
    \/ Le
    \/ Gt
    \/ Ge

Spec == Init /\ [][Next]_vars

(***************************************************************************)
(* Properties.  A and B of a claim are self and arg of a recorded call     *)
(* with an Interval argument; B.method(A) is the method applied the other  *)
(* way round.                                                              *)
(***************************************************************************)
Returned == ret.exc = "none"

Touch(a, b) == a.end = b.begin \/ b.end = a.begin

BothNonNull == IsInterval(arg) /\ ~is_null(self) /\ ~is_null(arg)

C2_NullInterval ==
    is_null(self) =>
        /\ op \in {"lt", "le", "gt", "ge"} => ret.exc = "ValueError"
        /\ op \in {"overlaps", "contains_point"} => (Returned /\ ret.val = FALSE)
        /\ op = "length" => (Returned /\ ret.val = 0)

\* C3 as stated: overlaps, overlap_size and distance_to return a value for
\* every interval and every argument form, a point inside the interval
\* included.
C3_NeverRaises ==
    op \in {"overlaps", "overlap_size", "distance_to"} => Returned

\* C4 as stated: __cmp__ returns -1, 0 or 1 without error, the sign of
\* cmp(A, B) is the opposite of that of cmp(B, A), and cmp(A, B) < 0 with
\* cmp(B, C) < 0 implies cmp(A, C) < 0, whatever the payload types.
C4_TotalOrder ==
    (op = "__cmp__" /\ IsInterval(arg)) =>
        /\ Returned
        /\ ret.val \in {-1, 0, 1}
        /\ ret.val = 0 - __cmp__(arg, self)
        /\ \A c \in Intervals :
            (ret.val < 0 /\ __cmp__(arg, c) < 0) => __cmp__(self, c) < 0

\* C5: A == B implies A.range_matches(B), which implies hash(A) == hash(B);
\* the hash of an interval is that of the same range with any other payload;
\* equal ranges with unequal payloads are range-matching, equal in hash and
\* not equal.
C5_HashLayers ==
    IsInterval(arg) =>
        /\ (op = "__eq__" /\ ret.val) => range_matches(self, arg)
        /\ (op = "range_matches" /\ ret.val) => __hash__(self) = __hash__(arg)
        /\ op = "__hash__" =>
            \A d \in Payloads :
                ret.val = __hash__(Interval(self.begin, self.end, d))
        /\ (op = "__eq__" /\ range_matches(self, arg)
                /\ ~DataEq(self.data, arg.data)) =>
            (ret.val = FALSE /\ __hash__(self) = __hash__(arg))

\* the same range under two unequal payloads: not equal, same hash
C5_Witness ==
    /\ op = "__eq__"
    /\ range_matches(self, arg)
    /\ self.data = PyStrA
    /\ arg.data = PyStrB
    /\ ret.val = FALSE
    /\ __hash__(self) = __hash__(arg)

\* C6: A.overlaps(B) == B.overlaps(A) for all intervals, null ones included.
C6_OverlapsSymmetric ==
    (op = "overlaps" /\ IsInterval(arg)) =>
        (Returned /\ ret.val = overlaps(arg, self))

\* a null interval and a non-null one that overlap each other
C6_Witness ==
    /\ op = "overlaps"
    /\ IsInterval(arg)
    /\ is_null(self)
    /\ ~is_null(arg)
    /\ ret.val = TRUE
    /\ overlaps(arg, self)

\* C7: for non-null overlapping A and B, A.overlap_size(B) equals
\* B.overlap_size(A), is min(A.end, B.end) - max(A.begin, B.begin), and is
\* strictly greater than 0.
C7_OverlapSize ==
    (op = "overlap_size" /\ BothNonNull /\ overlaps(self, arg)) =>
        /\ Returned
        /\ overlap_size(arg, self).exc = "none"
        /\ ret.val = overlap_size(arg, self).val
        /\ ret.val = Min(self.end, arg.end) - Max(self.begin, arg.begin)
        /\ ret.val > 0

\* a partial overlap, where neither interval contains the other
C7_Witness ==
    /\ op = "overlap_size"
    /\ BothNonNull
    /\ self.begin < arg.begin
    /\ arg.begin < self.end
    /\ self.end < arg.end
    /\ ret.val = self.end - arg.begin

\* C8: for non-null A and B, A.distance_to(B) is never negative, is 0 exactly
\* when they overlap or touch, and otherwise is B.begin - A.end when A lies
\* before B and A.begin - B.end when A lies after B.
C8_Distance ==
    (op = "distance_to" /\ BothNonNull) =>
        /\ Returned
        /\ ret.val >= 0
        /\ ret.val = 0 <=> (overlaps(self, arg) \/ Touch(self, arg))
        /\ self.end < arg.begin => ret.val = arg.begin - self.end
        /\ arg.end < self.begin => ret.val = self.begin - arg.end

\* A lies after B with a gap between them
C8_Witness ==
    /\ op = "distance_to"
    /\ BothNonNull
    /\ arg.end < self.begin
    /\ ret.val = self.begin - arg.end
    /\ ret.val > 0

\* C9: for non-null A and B exactly one of A.lt(B), A.gt(B), A.overlaps(B)
\* holds and A.lt(B) == B.gt(A); A.end == B.begin gives A.lt(B) and no
\* overlap, A.end > B.begin with A.begin < B.end gives A.lt(B) false.
C9_Trichotomy ==
    (op = "lt" /\ BothNonNull) =>
        /\ Returned
        /\ gt(self, arg).exc = "none"
        /\ gt(arg, self).exc = "none"
        /\ ret.val = gt(arg, self).val
        /\ \/ (ret.val /\ ~gt(self, arg).val /\ ~overlaps(self, arg))
           \/ (~ret.val /\ gt(self, arg).val /\ ~overlaps(self, arg))
           \/ (~ret.val /\ ~gt(self, arg).val /\ overlaps(self, arg))
        /\ self.end = arg.begin => (ret.val /\ ~overlaps(self, arg))
        /\ (self.end > arg.begin /\ self.begin < arg.end) => ~ret.val

\* A ends where B begins
C9_Witness ==
    /\ op = "lt"
    /\ BothNonNull
    /\ self.end = arg.begin
    /\ ret.val = TRUE
    /\ ~overlaps(self, arg)

\* C10 as stated: cmp(A, B) == 0 if and only if A == B.
C10_Original ==
    (op = "__cmp__" /\ IsInterval(arg)) =>
        (Returned /\ (ret.val = 0 <=> __eq__(self, arg)))

\* C10 amended: cmp(A, B) == 0 if and only if A == B, or A and B have equal
\* begin and end and their payloads are unequal, raise TypeError when ordered
\* and have the same type name.
C10_Amended ==
    (op = "__cmp__" /\ IsInterval(arg)) =>
        /\ Returned
        /\ ret.val = 0 <=>
            \/ __eq__(self, arg)
            \/ /\ range_matches(self, arg)
               /\ ~DataEq(self.data, arg.data)
               /\ DataLtRaises(self.data, arg.data)
               /\ TypeName(self.data) = TypeName(arg.data)

\* two unequal payloads of one type without ordering: cmp is 0, == is false
C10_Witness ==
    /\ op = "__cmp__"
    /\ IsInterval(arg)
    /\ range_matches(self, arg)
    /\ self.data = PyDict0
    /\ arg.data = PyDict1
    /\ ~__eq__(self, arg)
    /\ ret.val = 0

====
